---- MODULE Spec2Model ----
(***************************************************************************)
(* A model of the clustering pipeline of src/clustering/utils:             *)
(*   algorithms.py   the strategies KMeans, DBSCAN (and MeanShift) and     *)
(*                   their cluster_data                                    *)
(*   container.py    the dependency-injection container (selection graph)  *)
(*   data_model.py   the pydantic schemas and ConfigValidator              *)
(***************************************************************************)
EXTENDS Integers, Sequences, FiniteSets, TLC

VARIABLES
    strategy,   \* the strategy instance under test: its family and its backend (self.algo)
    call,       \* the last cluster_data call made on it: input, result, backend calls
    config,     \* Container.config: the configuration values in force
    inst,       \* the instance each Singleton provider of the container holds
    resolved,   \* the last resolution asked of the container and what it gave
    source,     \* the configuration source handed to validate_data
    verdict,    \* the validator model used and how validate_data ended
    graphs,     \* the Container instances built: each one's config and providers
    stores,     \* the instances each set of providers holds
    got,        \* the last thing asked of a Container instance and what it gave
    input,      \* the input file and the last load_data made on it
    disk,       \* the files of the working directory and the last save_to_file
    run         \* one run of the pipeline: the step it is at and what happened

algoVars      == <<strategy, call>>
containerVars == <<config, inst, resolved>>
validatorVars == <<source, verdict>>
graphVars     == <<graphs, stores, got>>
ioVars        == <<input, disk>>
vars == <<strategy, call, config, inst, resolved, source, verdict,
          graphs, stores, got, input, disk, run>>

----------------------------------------------------------------------------
(* Bounds of the model.                                                    *)

\* largest number of rows of a dataset
MaxRows == 2
\* largest number of feature columns of a dataset
MaxCols == 1

\* the feature values a cell may hold
Values == {0, 1}
\* the labels a backend may give a row (-1 is DBSCAN's noise label)
Labels == {-1, 0}

\* the three algorithm tags
Tags == {"kmeans", "dbscan", "mean_shift"}

----------------------------------------------------------------------------
(* numpy arrays: a shape and the rows.                                     *)

\* np.array([]) : the one-dimensional empty array of the unit tests
Empty1D == [shape |-> <<0>>, rows |-> <<>>]

\* the two-dimensional arrays of n rows and c columns
Matrix(n, c) == {[shape |-> <<n, c>>, rows |-> r] : r \in [1..n -> [1..c -> Values]]}

\* every dataset the model feeds to cluster_data (rectangular, or empty)
Datasets ==
    {Empty1D} \cup UNION {Matrix(n, c) : n \in 0..MaxRows, c \in 0..MaxCols}

\* ndarray.size : the number of elements
Size(data) ==
    IF Len(data.shape) = 1 THEN data.shape[1] ELSE data.shape[1] * data.shape[2]

\* the label vectors a backend may produce for data: one label per row
Labellings(data) == [1..data.shape[1] -> Labels]

\* labels.reshape(-1, 1) : the label vector as a column
reshape(labels) ==
    [shape |-> <<Len(labels), 1>>, rows |-> [i \in 1..Len(labels) |-> <<labels[i]>>]]

\* a plausible slip: the label column put in front of the data
hstack_LabelsFirst(a, b) ==
    [shape |-> <<a.shape[1], a.shape[2] + b.shape[2]>>,
     rows  |-> [i \in 1..a.shape[1] |-> b.rows[i] \o a.rows[i]]]

\* a plausible slip: the label column replaces the last feature column
hstack_Overwrite(a, b) ==
    [shape |-> <<a.shape[1], a.shape[2]>>,
     rows  |-> [i \in 1..a.shape[1] |->
                  SubSeq(a.rows[i], 1, a.shape[2] - 1) \o b.rows[i]]]

\* np.hstack((a, b)) of two 2-D arrays with the same number of rows
hstack(a, b) ==
    [shape |-> <<a.shape[1], a.shape[2] + b.shape[2]>>,
     rows  |-> [i \in 1..a.shape[1] |-> a.rows[i] \o b.rows[i]]]

----------------------------------------------------------------------------
(* The sklearn backends, as far as the strategies use them: an estimator   *)
(* is unfitted or holds what its last fit learned (the data and labels_).  *)

Unfitted(f) == [family |-> f, fitted |-> FALSE, X |-> Empty1D, labels_ |-> <<>>]

\* estimator.fit(data): learns from data; lab is the labelling it arrives at
fit(algo, data, lab) ==
    [algo EXCEPT !.fitted = TRUE, !.X = data, !.labels_ = lab]

\* the result of a predict the strategies never make (unfitted, or other data)
NotPredictable == <<"error">>

\* estimator.predict(data) on the data the estimator was fitted to
predict(algo, data) ==
    IF algo.fitted /\ algo.X = data THEN algo.labels_ ELSE NotPredictable

\* estimator.fit_predict(data): fits to data and returns labels_
fit_predict(algo, data, lab) ==
    LET fitted == fit(algo, data, lab)
    IN  [algo |-> fitted, labels |-> fitted.labels_]

\* one backend invocation in a call's trace
Invoke(m, data) == [m |-> m, arg |-> data]

\* the invocations that carry out a fit of the backend
FitMethods == {"fit", "fit_predict"}
\* the invocations that derive the labels
LabelMethods == {"predict", "fit_predict"}

----------------------------------------------------------------------------
(* The strategies (algorithms.py).  cluster_data yields the returned       *)
(* array, the backend as the call leaves it, the backend invocations made, *)
(* in order, and the labels the label derivation returned.                 *)

Outcome(ret, algo, trace, labels) ==
    [ret |-> ret, algo |-> algo, trace |-> trace, labels |-> labels]

\* a plausible slip: no short-circuit on empty data, the backend is fitted first
KMeans_cluster_data_NoGuard(self, data, lab) ==
    LET fitted == fit(self.algo, data, lab)
        labels == predict(fitted, data)
    IN  Outcome(IF Size(data) = 0 THEN data ELSE hstack(data, reshape(labels)),
                fitted,
                <<Invoke("fit", data), Invoke("predict", data)>>,
                labels)

\* a plausible slip: the guard tests len(data) instead of data.size
KMeans_cluster_data_LenGuard(self, data, lab) ==
    IF data.shape[1] = 0
    THEN Outcome(data, self.algo, <<>>, <<>>)
    ELSE LET fitted == fit(self.algo, data, lab)
             labels == predict(fitted, data)
         IN  Outcome(hstack(data, reshape(labels)),
                     fitted,
                     <<Invoke("fit", data), Invoke("predict", data)>>,
                     labels)

\* a plausible slip: a backend that is fitted already is not fitted again,
\* the labels come from what the earlier fit left
KMeans_cluster_data_FitOnce(self, data, lab) ==
    IF Size(data) = 0
    THEN Outcome(data, self.algo, <<>>, <<>>)
    ELSE IF self.algo.fitted
    THEN LET labels == [i \in 1..data.shape[1] |-> self.algo.labels_[1]]
         IN  Outcome(hstack(data, reshape(labels)),
                     self.algo,
                     <<Invoke("predict", data)>>,
                     labels)
    ELSE LET fitted == fit(self.algo, data, lab)
             labels == predict(fitted, data)
         IN  Outcome(hstack(data, reshape(labels)),
                     fitted,
                     <<Invoke("fit", data), Invoke("predict", data)>>,
                     labels)

\* KMeans.cluster_data: fit, then predict, then append the labels
KMeans_cluster_data(self, data, lab) ==
    IF Size(data) = 0
    THEN Outcome(data, self.algo, <<>>, <<>>)
    ELSE LET fitted == fit(self.algo, data, lab)
             labels == predict(fitted, data)
         IN  Outcome(hstack(data, reshape(labels)),
                     fitted,
                     <<Invoke("fit", data), Invoke("predict", data)>>,
                     labels)

\* a plausible slip: the DBSCAN strategy written like the KMeans one, with a
\* predict the DBSCAN backend does not have
DBSCAN_cluster_data_Predict(self, data, lab) ==
    IF Size(data) = 0
    THEN Outcome(data, self.algo, <<>>, <<>>)
    ELSE LET fitted == fit(self.algo, data, lab)
             labels == predict(fitted, data)
         IN  Outcome(hstack(data, reshape(labels)),
                     fitted,
                     <<Invoke("fit", data), Invoke("predict", data)>>,
                     labels)

\* DBSCAN.cluster_data: fit, then fit_predict, then append the labels.
\* DBSCAN is deterministic: both fits of the same data arrive at lab.
DBSCAN_cluster_data(self, data, lab) ==
    IF Size(data) = 0
    THEN Outcome(data, self.algo, <<>>, <<>>)
    ELSE LET fitted == fit(self.algo, data, lab)
             again  == fit_predict(fitted, data, lab)
         IN  Outcome(hstack(data, reshape(again.labels)),
                     again.algo,
                     <<Invoke("fit", data), Invoke("fit_predict", data)>>,
                     again.labels)

\* MeanShift.cluster_data: fit the backend, derive one label per row,
\* append the label column; empty data is returned as is
MeanShift_cluster_data(self, data, lab) ==
    IF Size(data) = 0
    THEN Outcome(data, self.algo, <<>>, <<>>)
    ELSE LET fitted == fit(self.algo, data, lab)
             labels == predict(fitted, data)
         IN  Outcome(hstack(data, reshape(labels)),
                     fitted,
                     <<Invoke("fit", data), Invoke("predict", data)>>,
                     labels)

\* BaseAlgo.cluster_data, dispatched on the strategy's class
cluster_data(self, data, lab) ==
    CASE self.family = "kmeans"     -> KMeans_cluster_data(self, data, lab)
      [] self.family = "dbscan"     -> DBSCAN_cluster_data(self, data, lab)
      [] self.family = "mean_shift" -> MeanShift_cluster_data(self, data, lab)

\* a strategy constructed with a fresh backend of its family: KMeans(algo), ...
NewStrategy(f) == [family |-> f, algo |-> Unfitted(f)]

\* no call is under way; before is the backend as the call found it
NoCall ==
    [made |-> FALSE, data |-> Empty1D, ret |-> Empty1D, trace |-> <<>>,
     labels |-> <<>>, before |-> Unfitted("")]

----------------------------------------------------------------------------
(* The container (container.py): configuration, Singleton providers and    *)
(* Selectors, with the semantics of dependency_injector.                   *)

\* a configuration option that is not set reads as None
None == "<None>"

\* the values algorithm_type takes in the model: the tags, an unknown tag, unset
AlgorithmTypes == Tags \cup {"spectral", None}
\* the values output_data_format takes in the model
OutputFormats == {"numpy", "json", "csv", None}

\* an object that was given no keyword arguments
NoArgs == [none |-> TRUE]

\* an instance: its class, the class of the backend it holds (a strategy),
\* the model it holds (a validator), the keyword arguments it was built
\* with, which construction of its provider it is, and whether it is fitted
Object(class, algo, model) ==
    [class |-> class, algo |-> algo, model |-> model,
     args |-> NoArgs, id |-> 0, fitted |-> FALSE]
\* a Singleton provider that has not been asked yet
NotBuilt == Object("", "", "")
\* a resolution that raised
Error == Object("Error", "", "")

\* sklearn_kmeans, sklearn_dbscan, sklearn_mean_shift: provider -> class built
BackendProviders ==
    [sklearn_kmeans     |-> "SklearnKMeans",
     sklearn_dbscan     |-> "SklearnDBSCAN",
     sklearn_mean_shift |-> "SklearnMeanShift"]

\* a plausible slip: the dbscan strategy wired to the k-means backend
StrategyProviders_Miswired ==
    [kmeans     |-> [class |-> "KMeans",    algo |-> "sklearn_kmeans"],
     dbscan     |-> [class |-> "DBSCAN",    algo |-> "sklearn_kmeans"],
     mean_shift |-> [class |-> "MeanShift", algo |-> "sklearn_mean_shift"]]

\* kmeans, dbscan, mean_shift: provider -> class built and the provider of algo
StrategyProviders ==
    [kmeans     |-> [class |-> "KMeans",    algo |-> "sklearn_kmeans"],
     dbscan     |-> [class |-> "DBSCAN",    algo |-> "sklearn_dbscan"],
     mean_shift |-> [class |-> "MeanShift", algo |-> "sklearn_mean_shift"]]

\* algorithm = Selector(config.algorithm_type, kmeans=, dbscan=, mean_shift=)
AlgorithmSelector ==
    [kmeans |-> "kmeans", dbscan |-> "dbscan", mean_shift |-> "mean_shift"]

\* the model Selector of algo_specific_validator
ModelSelector ==
    [kmeans |-> "KMeansModel", dbscan |-> "DBSCANModel",
     mean_shift |-> "MeanShiftModel"]

\* output_handler = Selector(config.output_data_format, numpy=, json=)
OutputSelector ==
    [numpy |-> "NumpyOutputHandler", json |-> "JSONOutputHandler"]

\* the Singleton providers that build an object without dependencies
HandlerProviders == {"NumpyOutputHandler", "JSONOutputHandler"}

SingletonNames ==
    DOMAIN BackendProviders \cup DOMAIN StrategyProviders
        \cup {"general_validator", "algo_specific_validator"} \cup HandlerProviders

\* the family a class belongs to
FamilyOf(class) ==
    CASE class \in {"KMeans", "SklearnKMeans", "KMeansModel"}          -> "kmeans"
      [] class \in {"DBSCAN", "SklearnDBSCAN", "DBSCANModel"}          -> "dbscan"
      [] class \in {"MeanShift", "SklearnMeanShift", "MeanShiftModel"} -> "mean_shift"
      [] OTHER -> "none"

\* what providing gives: the instances held afterwards and the value returned
Provided(store, value) == [store |-> store, value |-> value]

\* providers.Selector: the provider its table holds for the selector's value;
\* it raises when the value is undefined or no key of the table
Selector(value, table) ==
    IF value = None THEN Error
    ELSE IF value \notin DOMAIN table THEN Error
    ELSE Object("provider", table[value], "")

\* a plausible slip: a Factory, which builds a new instance on every call
Singleton_Factory(store, name, built) ==
    IF built.value = Error THEN Provided(built.store, Error)
    ELSE LET new == [built.value EXCEPT !.id = store[name].id + 1]
         IN  Provided([built.store EXCEPT ![name] = new], new)

\* providers.Singleton: the stored instance, or the one built now and stored;
\* when resolving an argument raised, nothing is stored
Singleton(store, name, built) ==
    IF store[name] # NotBuilt THEN Provided(store, store[name])
    ELSE IF built.value = Error THEN Provided(built.store, Error)
    ELSE LET new == [built.value EXCEPT !.id = 1]
         IN  Provided([built.store EXCEPT ![name] = new], new)

\* config.kmeans.n_clusters and the like: an option of a section that is
\* not set reads as None
ConfigOption(cfg, section, key) ==
    IF key \in DOMAIN cfg[section] THEN cfg[section][key] ELSE None

\* the keyword arguments each backend provider passes to the sklearn class
BackendArgs(cfg, name) ==
    CASE name = "sklearn_kmeans" ->
            [n_clusters   |-> ConfigOption(cfg, "kmeans", "n_clusters"),
             random_state |-> ConfigOption(cfg, "kmeans", "random_state"),
             max_iter     |-> ConfigOption(cfg, "kmeans", "max_iter"),
             init         |-> ConfigOption(cfg, "kmeans", "init")]
      [] name = "sklearn_dbscan" ->
            [eps         |-> ConfigOption(cfg, "dbscan", "eps"),
             min_samples |-> ConfigOption(cfg, "dbscan", "min_samples"),
             algorithm   |-> ConfigOption(cfg, "dbscan", "algorithm"),
             leaf_size   |-> ConfigOption(cfg, "dbscan", "leaf_size")]
      [] name = "sklearn_mean_shift" ->
            [bandwidth    |-> ConfigOption(cfg, "mean_shift", "bandwidth"),
             bin_seeding  |-> ConfigOption(cfg, "mean_shift", "bin_seeding"),
             min_bin_freq |-> ConfigOption(cfg, "mean_shift", "min_bin_freq"),
             cluster_all  |-> ConfigOption(cfg, "mean_shift", "cluster_all"),
             max_iter     |-> ConfigOption(cfg, "mean_shift", "max_iter")]

\* container.sklearn_kmeans() and the like
provide_backend(cfg, store, name) ==
    Singleton(store, name,
        Provided(store, [Object(BackendProviders[name], "", "")
                            EXCEPT !.args = BackendArgs(cfg, name)]))

\* container.kmeans() and the like: the strategy built over its backend provider
provide_strategy(cfg, store, name) ==
    LET algo == provide_backend(cfg, store, StrategyProviders[name].algo)
    IN  Singleton(store, name,
            Provided(algo.store,
                     [Object(StrategyProviders[name].class, algo.value.class, "")
                         EXCEPT !.args = [algo |-> algo.value.id]]))

\* a plausible slip: every strategy is built and the selected one returned
provide_algorithm_Eager(cfg, store) ==
    LET chosen == Selector(cfg.algorithm_type, AlgorithmSelector)
        a == provide_strategy(cfg, store, "kmeans")
        b == provide_strategy(cfg, a.store, "dbscan")
        c == provide_strategy(cfg, b.store, "mean_shift")
    IN  IF chosen = Error THEN Provided(store, Error)
        ELSE Provided(c.store, c.store[chosen.algo])

\* container.algorithm()
provide_algorithm(cfg, store) ==
    LET chosen == Selector(cfg.algorithm_type, AlgorithmSelector)
    IN  IF chosen = Error THEN Provided(store, Error)
        ELSE provide_strategy(cfg, store, chosen.algo)

\* container.general_validator()
provide_general_validator(store) ==
    Singleton(store, "general_validator",
        Provided(store, Object("ConfigValidator", "", "ConfigModel")))

\* container.algo_specific_validator()
provide_algo_specific_validator(cfg, store) ==
    LET chosen == Selector(cfg.algorithm_type, ModelSelector)
    IN  Singleton(store, "algo_specific_validator",
            Provided(store,
                     IF chosen = Error THEN Error
                     ELSE Object("ConfigValidator", "", chosen.algo)))

\* container.output_handler()
provide_output_handler(cfg, store) ==
    LET chosen == Selector(cfg.output_data_format, OutputSelector)
    IN  IF chosen = Error THEN Provided(store, Error)
        ELSE Singleton(store, chosen.algo, Provided(store, Object(chosen.algo, "", "")))

NoResolution == [what |-> "none", selector |-> None, value |-> NotBuilt]

\* the kmeans, dbscan and mean_shift sections of the fixtures, as the
\* container's configuration holds them (each value by its YAML text)
KMeansSection ==
    [n_clusters |-> "2", random_state |-> "false", max_iter |-> "250",
     init |-> "k-means++"]
DBSCANSection ==
    [eps |-> "0.5", min_samples |-> "5", algorithm |-> "auto", leaf_size |-> "30"]
MeanShiftSection ==
    [bandwidth |-> "0.5", seeds |-> "none", bin_seeding |-> "false",
     min_bin_freq |-> "1", cluster_all |-> "true", max_iter |-> "300"]
\* a section the configuration does not hold
NoSection == [unset |-> TRUE]

\* a configuration with the given selections and the sections of the fixtures
Config(t, f) ==
    [algorithm_type |-> t, output_data_format |-> f,
     kmeans |-> KMeansSection, dbscan |-> DBSCANSection,
     mean_shift |-> MeanShiftSection]

----------------------------------------------------------------------------
(* The schemas and the validator (data_model.py).  A YAML value is its     *)
(* type and its text; a configuration document is the three universal     *)
(* fields, the three algorithm records and one further key, if any.        *)

Str(s)  == [ty |-> "str", s |-> s]
IntV(s) == [ty |-> "int", s |-> s]
Null    == [ty |-> "null", s |-> ""]
List    == [ty |-> "list", s |-> ""]
\* the key is not in the document
Absent  == [ty |-> "absent", s |-> ""]

AlgorithmTypeValues ==
    {Absent, Null, Str("kmeans"), Str("dbscan"), Str("mean_shift"), Str("spectral")}
InputPathValues ==
    {Absent, Null, Str(""), Str("input_data.npy"), IntV("5"), List}
OutputFormatValues ==
    {Absent, Null, Str("numpy"), Str("json"), Str("csv"), Str("xml")}

\* a further key of the document: none, a string key, or a key that is no
\* string (YAML allows  1: x)
ExtraKeys == {"none", "str", "int"}

\* a number, a boolean, and a list of point lists, as yaml.safe_load gives
\* them; a float is held in tenths (Float(5) is 0.5, Float(20) is 2.0)
Integer(n) == [ty |-> "int", n |-> n]
Float(t)   == [ty |-> "float", n |-> t]
Bool(b)    == [ty |-> "bool", n |-> IF b THEN 1 ELSE 0]
PointList  == [ty |-> "list", s |-> "points"]

\* the kmeans record of the valid fixture (random_state: false)
ValidKMeans ==
    [ty |-> "map", n_clusters |-> Integer(2), random_state |-> Bool(FALSE),
     max_iter |-> Integer(250), init |-> Str("k-means++")]
\* the dbscan record of the valid fixture
ValidDBSCAN ==
    [ty |-> "map", eps |-> Float(5), min_samples |-> Integer(5),
     algorithm |-> Str("auto"), leaf_size |-> Integer(30)]
\* the mean_shift record of the valid fixture (seeds: none)
ValidMeanShift ==
    [ty |-> "map", bandwidth |-> Float(5), seeds |-> Str("none"),
     bin_seeding |-> Bool(FALSE), min_bin_freq |-> Integer(1),
     cluster_all |-> Bool(TRUE), max_iter |-> Integer(300)]

\* the documents given to the general validator: each algorithm record is
\* absent or the valid one
Documents ==
    [algorithm_type     : AlgorithmTypeValues,
     input_data_path    : InputPathValues,
     output_data_format : OutputFormatValues,
     kmeans             : {Absent, ValidKMeans},
     dbscan             : {Absent, ValidDBSCAN},
     mean_shift         : {Absent, ValidMeanShift},
     extra              : ExtraKeys]

NoDocument ==
    [algorithm_type |-> Absent, input_data_path |-> Absent,
     output_data_format |-> Absent, kmeans |-> Absent, dbscan |-> Absent,
     mean_shift |-> Absent, extra |-> "none"]

\* the kmeans records given to the algorithm-specific validators
KMeansRecords ==
    {Absent, Null} \cup
    [ty           : {"map"},
     n_clusters   : {Integer(2), Integer(0), Integer(-1), Bool(TRUE), Bool(FALSE),
                     Float(25), Str("2"), Str("two"), Absent},
     random_state : {Integer(0), Bool(FALSE), Null, Str("abc"), Absent},
     max_iter     : {Integer(250), Integer(0), Absent},
     init         : {Str("random"), Str("k-means++"), Str("forgy")}]

\* the dbscan records given to the algorithm-specific validators
DBSCANRecords ==
    {Absent, Null} \cup
    [ty          : {"map"},
     eps         : {Float(5), Float(0), Integer(1), Bool(FALSE), Absent},
     min_samples : {Integer(5), Integer(1), Integer(0), Bool(TRUE)},
     algorithm   : {Str("auto"), Str("ball_tree"), Str("kd_tree"), Str("brute"),
                    Str("fast")},
     leaf_size   : {Integer(30), Integer(2), Integer(1), Str("30"), Absent}]

\* the mean_shift records given to the algorithm-specific validators
MeanShiftRecords ==
    {Absent, Null} \cup
    [ty           : {"map"},
     bandwidth    : {Float(5), Float(0), Bool(FALSE)},
     seeds        : {Str("none"), PointList, Null, List, Str("auto"), Absent},
     bin_seeding  : {Bool(FALSE), Str("yes"), Str("maybe"), Absent},
     min_bin_freq : {Integer(1), Integer(0), Str("2")},
     cluster_all  : {Bool(TRUE), Null},
     max_iter     : {Integer(300), Integer(0)}]

\* a document with the given records, its other fields as in the fixtures
Configuration(t, path, km, db, ms, extra) ==
    [algorithm_type |-> t, input_data_path |-> path,
     output_data_format |-> Str("numpy"),
     kmeans |-> km, dbscan |-> db, mean_shift |-> ms, extra |-> extra]

\* the documents given to the algorithm-specific validators: those in which
\* one record varies and nothing else is wrong, and those in which the
\* records are absent or the valid ones and the rest varies
Configurations ==
    LET types == AlgorithmTypeValues \ {Null}
        path  == Str("input_data.npy")
    IN  {Configuration(t, path, km, Absent, Absent, "none") :
            t \in types, km \in KMeansRecords}
        \cup
        {Configuration(t, path, Absent, db, Absent, "none") :
            t \in types, db \in DBSCANRecords}
        \cup
        {Configuration(t, path, Absent, Absent, ms, "none") :
            t \in types, ms \in MeanShiftRecords}
        \cup
        {Configuration(t, p, km, db, ms, e) :
            t \in types, p \in {path, Absent},
            km \in {Absent, ValidKMeans}, db \in {Absent, ValidDBSCAN},
            ms \in {Absent, ValidMeanShift}, e \in ExtraKeys}

\* what open() and yaml.safe_load() make of config_path: no such file, a file
\* that is no YAML, an empty document (None), a sequence, or a mapping
Sources ==
    {[kind |-> k, doc |-> NoDocument] : k \in {"missing", "unparsable", "empty", "sequence"}}
        \cup {[kind |-> "mapping", doc |-> d] : d \in Documents}

\* a field typed Literal[...]: the value is one of the literals
LiteralOk(v, literals) == v.ty = "str" /\ v.s \in literals

\* a plausible slip: a str field that takes whatever is there (coercion)
StrOk_Coerce(v) == v.ty \in {"str", "int"}

\* a field typed str (pydantic 2 converts no other type to str)
StrOk(v) == v.ty = "str"

\* ConfigModel.algorithm_type
AlgorithmTypeLiterals == {"kmeans", "dbscan", "mean_shift"}
\* ConfigModel.output_data_format
OutputFormatLiterals == {"numpy", "csv", "json"}

\* ConfigModel(**data) raises no ValidationError; keys it does not declare
\* are ignored
ConfigModel(doc) ==
    /\ LiteralOk(doc.algorithm_type, AlgorithmTypeLiterals)
    /\ StrOk(doc.input_data_path)
    /\ LiteralOk(doc.output_data_format, OutputFormatLiterals)

\* the strings pydantic reads as a number, with the number (in tenths)
NumericStrings == [s \in {"2", "30", "0.5"} |->
                      CASE s = "2" -> 20 [] s = "30" -> 300 [] s = "0.5" -> 5]
\* the strings pydantic reads as a boolean
BoolStrings == {"true", "false", "yes", "no", "on", "off"}

\* what a field typed float makes of a value: numbers, booleans and numeric
\* strings are converted, nothing else is
AsFloat(v) ==
    CASE v.ty = "float" -> [ok |-> TRUE, n |-> v.n]
      [] v.ty \in {"int", "bool"} -> [ok |-> TRUE, n |-> v.n * 10]
      [] v.ty = "str" /\ v.s \in DOMAIN NumericStrings ->
            [ok |-> TRUE, n |-> NumericStrings[v.s]]
      [] OTHER -> [ok |-> FALSE, n |-> 0]

\* what a field typed int makes of a value: as for float, provided the
\* number has no fractional part
AsInt(v) ==
    LET f == AsFloat(v)
    IN  [ok |-> f.ok /\ f.n % 10 = 0, n |-> f.n \div 10]

\* a field typed bool: a boolean, the numbers 0 and 1, or a boolean string
BoolOk(v) ==
    \/ v.ty = "bool"
    \/ v.ty \in {"int", "float"} /\ AsFloat(v).n \in {0, 10}
    \/ v.ty = "str" /\ v.s \in BoolStrings

\* int = Field(..., gt=bound)
IntGt(v, bound) == AsInt(v).ok /\ AsInt(v).n > bound
\* int = Field(..., ge=bound)
IntGe(v, bound) == AsInt(v).ok /\ AsInt(v).n >= bound
\* float = Field(..., gt=0)
FloatGt0(v) == AsFloat(v).ok /\ AsFloat(v).n > 0

\* Optional[int] without a default: the key is required, null is allowed
OptionalInt(v) == v.ty = "null" \/ AsInt(v).ok

\* Union[Optional[List[List[float]]], Literal["none"]] without a default:
\* the key is required; null, a list of point lists, or the string "none"
SeedsOk(v) == v.ty = "null" \/ v = PointList \/ v = Str("none")

\* KMeansParamsConfig
KMeansParamsConfig(rec) ==
    /\ rec.ty = "map"
    /\ IntGt(rec.n_clusters, 0)
    /\ OptionalInt(rec.random_state)
    /\ IntGt(rec.max_iter, 0)
    /\ LiteralOk(rec.init, {"random", "k-means++"})

\* DBSCANParamsConfig
DBSCANParamsConfig(rec) ==
    /\ rec.ty = "map"
    /\ FloatGt0(rec.eps)
    /\ IntGe(rec.min_samples, 1)
    /\ LiteralOk(rec.algorithm, {"auto", "ball_tree", "kd_tree", "brute"})
    /\ IntGt(rec.leaf_size, 1)

\* MeanShiftParamsConfig
MeanShiftParamsConfig(rec) ==
    /\ rec.ty = "map"
    /\ FloatGt0(rec.bandwidth)
    /\ SeedsOk(rec.seeds)
    /\ BoolOk(rec.bin_seeding)
    /\ IntGe(rec.min_bin_freq, 1)
    /\ BoolOk(rec.cluster_all)
    /\ IntGe(rec.max_iter, 1)

\* a plausible slip: the subclasses do not narrow algorithm_type
ModelLiterals_Inherited ==
    [KMeansModel    |-> {"kmeans", "dbscan", "mean_shift"},
     DBSCANModel    |-> {"kmeans", "dbscan", "mean_shift"},
     MeanShiftModel |-> {"kmeans", "dbscan", "mean_shift"}]

\* KMeansModel.algorithm_type, DBSCANModel.algorithm_type,
\* MeanShiftModel.algorithm_type
ModelLiterals ==
    [KMeansModel    |-> {"kmeans"},
     DBSCANModel    |-> {"dbscan"},
     MeanShiftModel |-> {"mean_shift"}]

\* the fields a subclass of ConfigModel inherits unchanged
InheritedFields(doc) ==
    /\ StrOk(doc.input_data_path)
    /\ LiteralOk(doc.output_data_format, OutputFormatLiterals)

\* KMeansModel(**data) raises no ValidationError
KMeansModel(doc) ==
    /\ LiteralOk(doc.algorithm_type, ModelLiterals.KMeansModel)
    /\ InheritedFields(doc)
    /\ KMeansParamsConfig(doc.kmeans)

\* DBSCANModel(**data) raises no ValidationError
DBSCANModel(doc) ==
    /\ LiteralOk(doc.algorithm_type, ModelLiterals.DBSCANModel)
    /\ InheritedFields(doc)
    /\ DBSCANParamsConfig(doc.dbscan)

\* MeanShiftModel(**data) raises no ValidationError
MeanShiftModel(doc) ==
    /\ LiteralOk(doc.algorithm_type, ModelLiterals.MeanShiftModel)
    /\ InheritedFields(doc)
    /\ MeanShiftParamsConfig(doc.mean_shift)

\* the fields of each family's parameter record (KMeansParamsConfig,
\* DBSCANParamsConfig, MeanShiftParamsConfig)
ParamFields ==
    [kmeans     |-> {"n_clusters", "random_state", "max_iter", "init"},
     dbscan     |-> {"eps", "min_samples", "algorithm", "leaf_size"},
     mean_shift |-> {"bandwidth", "seeds", "bin_seeding", "min_bin_freq",
                     "cluster_all", "max_iter"}]

\* self.model(**data) for the validator's model
ModelAccepts(model, doc) ==
    CASE model = "ConfigModel"    -> ConfigModel(doc)
      [] model = "KMeansModel"    -> KMeansModel(doc)
      [] model = "DBSCANModel"    -> DBSCANModel(doc)
      [] model = "MeanShiftModel" -> MeanShiftModel(doc)

\* a plausible slip: the ValidationError is not translated
validate_data_Leaky(model, src) ==
    CASE src.kind = "missing"    -> "FileNotFoundError"
      [] src.kind = "unparsable" -> "YAMLError"
      [] src.kind \in {"empty", "sequence"} -> "TypeError"
      [] src.kind = "mapping" ->
            IF src.doc.extra = "int" THEN "TypeError"
            ELSE IF ModelAccepts(model, src.doc) THEN "ok"
            ELSE "ValidationError"

\* ConfigValidator.validate_data: "ok" is the silent return, else the error raised
validate_data(model, src) ==
    CASE src.kind = "missing"    -> "FileNotFoundError"
      [] src.kind = "unparsable" -> "YAMLError"
      [] src.kind \in {"empty", "sequence"} -> "TypeError"
      [] src.kind = "mapping" ->
            IF src.doc.extra = "int" THEN "TypeError"
            ELSE IF ModelAccepts(model, src.doc) THEN "ok"
            ELSE "TypeError"

NoVerdict == [made |-> FALSE, model |-> "", outcome |-> ""]

IdleValidator ==
    /\ source = [kind |-> "missing", doc |-> NoDocument]
    /\ verdict = NoVerdict

----------------------------------------------------------------------------
(* Container instances (graphs).  Container() gives the instance its own   *)
(* copy of the providers declared on the class; a strategy the caller has  *)
(* resolved holds its backend by reference.                                *)

\* the Container instances the model builds
Graphs == {1, 2}

\* largest count kept of repeated resolutions under one configuration
MaxResolutions == 2

\* the values config.kmeans.n_clusters takes in the model
ClusterCounts == {"2", "3"}

\* the providers declared on the class Container itself
ClassProviders == 0

\* a plausible slip: every instance uses the providers of the class
NewProviders_Shared(g) == ClassProviders

\* Container(): the providers of instance g are its own copies
NewProviders(g) == g

ProviderSets == {ClassProviders} \cup {NewProviders(g) : g \in Graphs}

\* providers none of which has been asked yet
EmptyStore == [n \in SingletonNames |-> NotBuilt]

\* a configuration file that holds the record of its algorithm_type only
OnlyOwnSection(cfg) ==
    [k \in DOMAIN cfg |->
        IF k \in Tags /\ k # cfg.algorithm_type THEN NoSection ELSE cfg[k]]

\* the configurations loaded into a Container instance: with the records
\* of all three families, and with the record of the selected family only
GraphConfigs ==
    LET full == {[Config(t, "numpy") EXCEPT !.kmeans.n_clusters = n] :
                    t \in Tags, n \in ClusterCounts}
    IN  full \cup {OnlyOwnSection(cfg) : cfg \in full}

\* a Container instance that has not been built
NoGraph == [built |-> FALSE]

\* nothing has been asked of any instance
NoRequest == [op |-> "none", graph |-> 0, times |-> 0]

\* no Container instance exists
IdleGraphs ==
    /\ graphs = <<>>
    /\ stores = <<>>
    /\ got = NoRequest

\* container = Container(); container.config.from_yaml(config_file)
NewContainer(g) ==
    /\ ~graphs[g].built
    /\ \E cfg \in GraphConfigs :
          graphs' = [graphs EXCEPT ![g] = [built |-> TRUE, config |-> cfg,
                                           provs |-> NewProviders(g)]]
    /\ UNCHANGED <<stores, got, algoVars, containerVars, validatorVars, ioVars, run>>

\* container.config.from_yaml(config_file) on an instance in use
Reconfigure(g) ==
    /\ graphs[g].built
    /\ \E cfg \in GraphConfigs :
          graphs' = [graphs EXCEPT ![g].config = cfg]
    /\ UNCHANGED <<stores, got, algoVars, containerVars, validatorVars, ioVars, run>>

\* algo = container.algorithm()
ResolveAlgorithmIn(g) ==
    /\ graphs[g].built
    /\ LET cfg == graphs[g].config
           p   == graphs[g].provs
       IN  \E r \in {provide_algorithm(cfg, stores[p])} :
             /\ stores' = [stores EXCEPT ![p] = r.store]
             /\ got' = [op    |-> "resolve",
                        graph |-> g,
                        cfg   |-> cfg,
                        value |-> r.value,
                        algo  |-> IF r.value = Error THEN Error
                                  ELSE r.store[StrategyProviders[cfg.algorithm_type].algo],
                        times |-> IF got.op = "resolve" /\ got.graph = g /\ got.cfg = cfg
                                  THEN IF got.times < MaxResolutions
                                       THEN got.times + 1 ELSE MaxResolutions
                                  ELSE 1]
    /\ UNCHANGED <<graphs, algoVars, containerVars, validatorVars, ioVars, run>>

\* algo.cluster_data(data) on non-empty data, by the caller that resolved
\* algo from instance g: the backend the strategy holds is fitted
ClusterIn(g) ==
    /\ got.op \in {"resolve", "fit"}
    /\ got.graph = g
    /\ got.value # Error
    /\ LET p  == graphs[g].provs
           bn == StrategyProviders[got.cfg.algorithm_type].algo
       IN  stores' = [stores EXCEPT ![p][bn].fitted = TRUE]
    /\ got' = [got EXCEPT !.op = "fit"]
    /\ UNCHANGED <<graphs, algoVars, containerVars, validatorVars, ioVars, run>>

----------------------------------------------------------------------------
(* The input handler (input_handler.py) and the output handlers            *)
(* (output_handler.py).  A file holds what np.save or json.dumps wrote, or *)
(* plain text.                                                             *)

\* ndarray.tolist(): the rows as nested lists; the shape is not kept
tolist(a) == a.rows

\* np.array(list) of a nested list of numbers: the shape is found from the
\* list, and the empty list gives the one-dimensional empty array
np_array(list) ==
    IF list = <<>> THEN Empty1D
    ELSE [shape |-> <<Len(list), Len(list[1])>>, rows |-> list]

\* what np.save(name, data) writes
Npy(a) == [format |-> "npy", array |-> a, list |-> <<>>]
\* what json.dumps(data.tolist()) written to a file gives
Json(list) == [format |-> "json", array |-> Empty1D, list |-> list]
\* a text file ("abcd")
Text == [format |-> "text", array |-> Empty1D, list |-> <<>>]
\* no file
NoContent == [format |-> "none", array |-> Empty1D, list |-> <<>>]

\* file names, split before each dot: data.npy is <<"data", ".npy">>, the
\* hidden file .npy is <<"", ".npy">>
FileNames ==
    {<<"data", ".npy">>, <<"data", ".json">>, <<"data", ".txt">>, <<"data">>,
     <<"data", ".NPY">>, <<"data", ".npy", ".txt">>, <<"data", ".txt", ".json">>,
     <<"", ".npy">>, <<"data", ".yaml">>}

\* Path.suffix: the last dot of the name and what follows it, unless the
\* name starts with that dot or ends with it
suffix(name) ==
    IF Len(name) > 1 /\ (Len(name) > 2 \/ name[1] # "") /\ name[Len(name)] # "."
    THEN name[Len(name)]
    ELSE ""

\* how load_data ends: the array returned or the error raised, and how many
\* times the file was opened
Returned(data) == [outcome |-> "ok", data |-> data, reads |-> 1]
Raised(error, reads) == [outcome |-> error, data |-> Empty1D, reads |-> reads]

\* np.load(path): the array np.save wrote; a file that is no .npy file is
\* refused with a ValueError
np_load(content) ==
    IF content.format = "npy" THEN Returned(content.array)
    ELSE Raised("ValueError", 1)

\* np.array(json.load(json_file)): a file that is no JSON raises a
\* JSONDecodeError or UnicodeDecodeError, both ValueErrors
json_load(content) ==
    IF content.format = "json" THEN Returned(np_array(content.list))
    ELSE Raised("ValueError", 1)

\* a plausible slip: the suffix is looked at before the existence of the file
load_data_SuffixFirst(self) ==
    IF suffix(self.name) = ".npy"
    THEN IF self.exists THEN np_load(self.content) ELSE Raised("FileNotFoundError", 0)
    ELSE IF suffix(self.name) = ".json"
    THEN IF self.exists THEN json_load(self.content) ELSE Raised("FileNotFoundError", 0)
    ELSE Raised("ValueError", 0)

\* a plausible slip: any suffix but .json is taken for a numpy file
load_data_NumpyDefault(self) ==
    IF ~self.exists THEN Raised("FileExistsError", 0)
    ELSE IF suffix(self.name) = ".json" THEN json_load(self.content)
    ELSE np_load(self.content)

\* InputHandler.load_data, self.path being the file
load_data(self) ==
    IF ~self.exists THEN Raised("FileExistsError", 0)
    ELSE IF suffix(self.name) = ".npy" THEN np_load(self.content)
    ELSE IF suffix(self.name) = ".json" THEN json_load(self.content)
    ELSE Raised("ValueError", 0)

\* the input files of the model: no file under the name, or a file that
\* holds the dataset stored, written by np.save or as JSON, or plain text
InputFiles(stored) ==
    {[exists |-> FALSE, name |-> n, content |-> NoContent] : n \in FileNames}
    \cup
    {[exists |-> TRUE, name |-> n, content |-> c] :
        n \in FileNames, c \in {Npy(stored), Json(tolist(stored)), Text}}


\* the files of the working directory the model follows
DiskFiles == {"clustered_data.npy", "clustered_data.json", "input_data.npy"}

\* a plausible slip: the JSON handler writes under the name of the numpy one
save_to_file_OneName(class, data, files) ==
    CASE class = "NumpyOutputHandler" ->
            [files EXCEPT !["clustered_data.npy"] = Npy(data)]
      [] class = "JSONOutputHandler" ->
            [files EXCEPT !["clustered_data.npy"] = Json(tolist(data))]

\* NumpyOutputHandler.save_to_file and JSONOutputHandler.save_to_file: the
\* files of the working directory after the call
save_to_file(class, data, files) ==
    CASE class = "NumpyOutputHandler" ->
            [files EXCEPT !["clustered_data.npy"] = Npy(data)]
      [] class = "JSONOutputHandler" ->
            [files EXCEPT !["clustered_data.json"] = Json(tolist(data))]

\* a variable no operation of the specification at hand uses
Unused == [made |-> FALSE]

\* no input file is looked at, nothing is saved, no pipeline runs
IdleIO ==
    /\ input = Unused
    /\ disk = Unused
    /\ run = Unused

----------------------------------------------------------------------------
(* SpecAlgo: one strategy instance and the cluster_data calls made on it.  *)

IdleAlgo ==
    /\ strategy = NewStrategy("kmeans")
    /\ call = NoCall

IdleContainer ==
    /\ config = Config(None, None)
    /\ inst = [n \in SingletonNames |-> NotBuilt]
    /\ resolved = NoResolution

InitAlgo ==
    /\ strategy \in {NewStrategy(f) : f \in Tags}
    /\ call = NoCall
    /\ IdleContainer
    /\ IdleValidator
    /\ IdleGraphs
    /\ IdleIO

\* clustered_data = algo_instance.cluster_data(data): the call, up to its return
ClusterData ==
    /\ ~call.made
    /\ \E data \in Datasets : \E lab \in Labellings(data) :
        \E out \in {cluster_data(strategy, data, lab)} :
            /\ strategy' = [strategy EXCEPT !.algo = out.algo]
            /\ call' = [made |-> TRUE, data |-> data, ret |-> out.ret,
                        trace |-> out.trace, labels |-> out.labels,
                        before |-> strategy.algo]
            /\ UNCHANGED <<containerVars, validatorVars, graphVars, ioVars, run>>

\* the caller has taken the returned array; the strategy is free for a next call
TakeResult ==
    /\ call.made
    /\ call' = NoCall
    /\ UNCHANGED <<strategy, containerVars, validatorVars, graphVars, ioVars, run>>

NextAlgo ==
    \/ ClusterData
    \/ TakeResult

SpecAlgo == InitAlgo /\ [][NextAlgo]_vars

----------------------------------------------------------------------------
(* SpecContainer: one Container instance, its configuration being set and  *)
(* its providers being resolved.                                           *)

InitContainer ==
    /\ config \in {Config(t, f) : t \in AlgorithmTypes, f \in OutputFormats}
    /\ inst = [n \in SingletonNames |-> NotBuilt]
    /\ resolved = NoResolution
    /\ IdleAlgo
    /\ IdleValidator
    /\ IdleGraphs
    /\ IdleIO

Resolve(what, selector, provided) ==
    /\ \E r \in {provided} :
          /\ inst' = r.store
          /\ resolved' = [what |-> what, selector |-> selector, value |-> r.value]
    /\ UNCHANGED <<config, algoVars, validatorVars, graphVars, ioVars, run>>

\* container.config.algorithm_type.override(t)
SetAlgorithmType ==
    \E t \in AlgorithmTypes :
        /\ config' = [config EXCEPT !.algorithm_type = t]
        /\ UNCHANGED <<inst, resolved, algoVars, validatorVars, graphVars, ioVars, run>>

\* container.config.output_data_format.override(f)
SetOutputFormat ==
    \E f \in OutputFormats :
        /\ config' = [config EXCEPT !.output_data_format = f]
        /\ UNCHANGED <<inst, resolved, algoVars, validatorVars, graphVars, ioVars, run>>

\* container.sklearn_kmeans(), container.sklearn_dbscan(), ...
ResolveBackend ==
    \E n \in DOMAIN BackendProviders :
        Resolve("backend", n, provide_backend(config, inst, n))

\* container.kmeans(), container.dbscan(), container.mean_shift()
ResolveStrategy ==
    \E n \in DOMAIN StrategyProviders :
        Resolve("strategy", n, provide_strategy(config, inst, n))

\* container.algorithm()
ResolveAlgorithm ==
    Resolve("algorithm", config.algorithm_type, provide_algorithm(config, inst))

\* container.general_validator()
ResolveGeneralValidator ==
    Resolve("general_validator", None, provide_general_validator(inst))

\* container.algo_specific_validator()
ResolveAlgoSpecificValidator ==
    Resolve("algo_specific_validator", config.algorithm_type,
            provide_algo_specific_validator(config, inst))

\* container.output_handler()
ResolveOutputHandler ==
    Resolve("output_handler", config.output_data_format,
            provide_output_handler(config, inst))

NextContainer ==
    \/ SetAlgorithmType
    \/ SetOutputFormat
    \/ ResolveBackend
    \/ ResolveStrategy
    \/ ResolveAlgorithm
    \/ ResolveGeneralValidator
    \/ ResolveAlgoSpecificValidator
    \/ ResolveOutputHandler

SpecContainer == InitContainer /\ [][NextContainer]_vars

----------------------------------------------------------------------------
(* SpecValidator: a configuration source and the general validator run on  *)
(* it.                                                                     *)

InitValidator ==
    /\ source \in Sources
    /\ verdict = NoVerdict
    /\ IdleAlgo
    /\ IdleContainer
    /\ IdleGraphs
    /\ IdleIO

\* container.general_validator().validate_data(config_path)
ValidateGeneral ==
    /\ verdict' = [made |-> TRUE, model |-> "ConfigModel",
                   outcome |-> validate_data("ConfigModel", source)]
    /\ UNCHANGED <<source, algoVars, containerVars, graphVars, ioVars, run>>

NextValidator == ValidateGeneral

SpecValidator == InitValidator /\ [][NextValidator]_vars

----------------------------------------------------------------------------
(* SpecGraph: one Container instance, reconfigured and resolved.           *)
(* SpecGraphs: two Container instances built independently, resolved and   *)
(* used.                                                                   *)

InitGraphs ==
    /\ graphs = [g \in Graphs |-> NoGraph]
    /\ stores = [p \in ProviderSets |-> EmptyStore]
    /\ got = NoRequest
    /\ IdleAlgo
    /\ IdleContainer
    /\ IdleValidator
    /\ IdleIO

NextGraph ==
    \/ NewContainer(1)
    \/ Reconfigure(1)
    \/ ResolveAlgorithmIn(1)

SpecGraph == InitGraphs /\ [][NextGraph]_vars

NextGraphs ==
    \E g \in Graphs :
        \/ NewContainer(g)
        \/ ResolveAlgorithmIn(g)
        \/ ClusterIn(g)

SpecGraphs == InitGraphs /\ [][NextGraphs]_vars

----------------------------------------------------------------------------
(* SpecSchemas: a configuration document and the validators (the general   *)
(* one and the three algorithm-specific ones) run on it.                   *)

SpecificModels == {"KMeansModel", "DBSCANModel", "MeanShiftModel"}

InitSchemas ==
    /\ source \in {[kind |-> "mapping", doc |-> d] : d \in Configurations}
    /\ verdict = NoVerdict
    /\ IdleAlgo
    /\ IdleContainer
    /\ IdleGraphs
    /\ IdleIO

\* ConfigValidator(model=KMeansModel).validate_data(config_path), and the like
ValidateSpecific ==
    \E m \in SpecificModels :
        /\ verdict' = [made |-> TRUE, model |-> m,
                       outcome |-> validate_data(m, source)]
        /\ UNCHANGED <<source, algoVars, containerVars, graphVars, ioVars, run>>

NextSchemas ==
    \/ ValidateGeneral
    \/ ValidateSpecific

SpecSchemas == InitSchemas /\ [][NextSchemas]_vars

----------------------------------------------------------------------------
(* SpecInput: an input file and load_data on it.                           *)

InitInput ==
    /\ \E stored \in Datasets : \E f \in InputFiles(stored) :
          input = [made |-> FALSE, file |-> f, stored |-> stored, result |-> Raised("none", 0)]
    /\ disk = Unused
    /\ run = Unused
    /\ IdleAlgo
    /\ IdleContainer
    /\ IdleValidator
    /\ IdleGraphs

\* data = InputHandler(path).load_data()
LoadData ==
    /\ ~input.made
    /\ input' = [input EXCEPT !.made = TRUE, !.result = load_data(input.file)]
    /\ UNCHANGED <<algoVars, containerVars, validatorVars, graphVars, disk, run>>

SpecInput == InitInput /\ [][LoadData]_vars

----------------------------------------------------------------------------
(* SpecOutput: one Container instance whose output handler is resolved and *)
(* used to save clustered data.                                            *)

\* the arrays handed to save_to_file, and held by the input file of a run
SavedData == {Empty1D} \cup Matrix(1, MaxCols)

InitOutput ==
    /\ config \in {Config("kmeans", f) : f \in OutputFormats}
    /\ inst = [n \in SingletonNames |-> NotBuilt]
    /\ resolved = NoResolution
    /\ disk = [made |-> FALSE, files |-> [n \in DiskFiles |-> NoContent],
               handler |-> "", format |-> None, data |-> Empty1D]
    /\ input = Unused
    /\ run = Unused
    /\ IdleAlgo
    /\ IdleValidator
    /\ IdleGraphs

\* handler.save_to_file(data), handler being what container.output_handler()
\* has just given
SaveToFile ==
    /\ resolved.what = "output_handler"
    /\ resolved.value # Error
    /\ \E data \in SavedData :
          disk' = [made    |-> TRUE,
                   files   |-> save_to_file(resolved.value.class, data, disk.files),
                   handler |-> resolved.value.class,
                   format  |-> resolved.selector,
                   data    |-> data]
    /\ UNCHANGED <<algoVars, containerVars, validatorVars, graphVars, input, run>>

NextOutput ==
    \/ SetOutputFormat
    \/ ResolveOutputHandler
    \/ SaveToFile

SpecOutput == InitOutput /\ [][NextOutput]_vars

----------------------------------------------------------------------------
(* Claims about cluster_data, checked under SpecAlgo.                      *)

\* the number of fits of the backend a trace carries out
RECURSIVE FitCount(_)
FitCount(trace) ==
    IF trace = <<>> THEN 0
    ELSE (IF Head(trace).m \in FitMethods THEN 1 ELSE 0) + FitCount(Tail(trace))

NonEmptyCall == call.made /\ Size(call.data) > 0
EmptyCall    == call.made /\ Size(call.data) = 0

\* C1: cluster_data on a dataset of zero elements returns that dataset
\* unchanged, for every strategy: the same shape, size 0, no label column.
C1_EmptyReturnedUnchanged ==
    EmptyCall => /\ call.ret = call.data
                 /\ Size(call.ret) = 0

\* C1 witness: a call on a dataset with rows but no columns (zero elements)
C1_Witness ==
    /\ EmptyCall
    /\ call.data.shape = <<MaxRows, 0>>
    /\ call.ret.shape = <<MaxRows, 0>>

\* C2: on a non-empty dataset of N rows and C columns the result has exactly
\* N rows and exactly C + 1 columns.
C2_ShapeGrowsByOneColumn ==
    NonEmptyCall =>
        LET n == call.data.shape[1]
            c == call.data.shape[2]
        IN  /\ call.ret.shape = <<n, c + 1>>
            /\ Len(call.ret.rows) = n
            /\ \A i \in 1..n : Len(call.ret.rows[i]) = c + 1

\* C2 witness: a call on the largest dataset of the model
C2_Witness ==
    /\ NonEmptyCall
    /\ call.data.shape = <<MaxRows, MaxCols>>
    /\ call.ret.shape = <<MaxRows, MaxCols + 1>>

\* C3: on non-empty input the result is the input with the labels appended:
\* the first C entries of row i are input row i, and the rightmost entry of
\* row i is the label the backend produced for row i.
C3_LabelsAppendedRightmost ==
    NonEmptyCall =>
        LET n == call.data.shape[1]
            c == call.data.shape[2]
        IN  /\ Len(call.labels) = n
            /\ call.labels = strategy.algo.labels_
            /\ \A i \in 1..n :
                  /\ SubSeq(call.ret.rows[i], 1, c) = call.data.rows[i]
                  /\ call.ret.rows[i][Len(call.ret.rows[i])] = call.labels[i]

\* C3 witness: two different rows that got two different labels
C3_Witness ==
    /\ NonEmptyCall
    /\ call.data.shape[1] = 2
    /\ call.data.rows[1] # call.data.rows[2]
    /\ call.labels[1] # call.labels[2]
    /\ call.ret.rows[2] = call.data.rows[2] \o <<call.labels[2]>>

\* C4 (as claimed): during a cluster_data call on non-empty data the backend
\* is fitted exactly once, and every backend invocation gets the call's data.
C4_FitExactlyOnce ==
    NonEmptyCall =>
        /\ FitCount(call.trace) = 1
        /\ \A k \in 1..Len(call.trace) : call.trace[k].arg = call.data

\* C5: cluster_data on an empty dataset invokes the backend not at all and
\* leaves the backend's fitted state as it was, fitted earlier or not.
C5_EmptyCallLeavesBackend ==
    [][ (call'.made /\ Size(call'.data) = 0)
            => (call'.trace = <<>> /\ strategy' = strategy) ]_vars

\* C5 witness: an empty call made on a strategy whose backend is fitted
C5_Witness ==
    /\ EmptyCall
    /\ call.trace = <<>>
    /\ strategy.algo.fitted

----------------------------------------------------------------------------
(* Claims about the selection graph, checked under SpecContainer.          *)

\* the strategy class and the backend class of each family
ExpectedWiring ==
    [kmeans     |-> <<"KMeans", "SklearnKMeans">>,
     dbscan     |-> <<"DBSCAN", "SklearnDBSCAN">>,
     mean_shift |-> <<"MeanShift", "SklearnMeanShift">>]

\* C6: resolving the algorithm under algorithm_type = t, for each of the
\* three tags, yields the strategy of family t holding the backend of
\* family t, and no resolution yields a strategy or backend of another family.
C6_AlgorithmOfSelectedFamily ==
    resolved.what = "algorithm" =>
        /\ resolved.selector \in Tags =>
              /\ resolved.value # Error
              /\ <<resolved.value.class, resolved.value.algo>>
                    = ExpectedWiring[resolved.selector]
        /\ resolved.value # Error =>
              /\ FamilyOf(resolved.value.class) = resolved.selector
              /\ FamilyOf(resolved.value.algo) = resolved.selector

\* C6 witness: dbscan resolved in a graph that has already built the k-means
\* strategy and backend
C6_Witness ==
    /\ resolved.what = "algorithm"
    /\ resolved.selector = "dbscan"
    /\ resolved.value.class = "DBSCAN"
    /\ resolved.value.algo = "SklearnDBSCAN"
    /\ inst["kmeans"] # NotBuilt
    /\ inst["sklearn_kmeans"] # NotBuilt

\* C7 (as claimed): resolving the algorithm, the algorithm-specific validator
\* or the output handler under a selector value that is no key of the
\* selection table (an unset value included) fails with an error.
C7_UnknownSelectionFails ==
    /\ (resolved.what = "algorithm"
            /\ resolved.selector \notin DOMAIN AlgorithmSelector)
          => resolved.value = Error
    /\ (resolved.what = "algo_specific_validator"
            /\ resolved.selector \notin DOMAIN ModelSelector)
          => resolved.value = Error
    /\ (resolved.what = "output_handler"
            /\ resolved.selector \notin DOMAIN OutputSelector)
          => resolved.value = Error

----------------------------------------------------------------------------
(* Claims about the general validator, checked under SpecValidator.        *)

GeneralVerdict ==
    verdict.made /\ verdict.model = "ConfigModel" /\ source.kind = "mapping"

\* C8 (as claimed): the general validator accepts output_data_format only
\* when it is numpy or json, so that every accepted configuration has an
\* output_data_format the output handler Selector resolves.
C8_AcceptedFormatResolves ==
    (GeneralVerdict /\ verdict.outcome = "ok") =>
        /\ source.doc.output_data_format \in {Str("numpy"), Str("json")}
        /\ Selector(source.doc.output_data_format.s, OutputSelector) # Error

SameUniversalFields(d, e) ==
    /\ d.algorithm_type = e.algorithm_type
    /\ d.input_data_path = e.input_data_path
    /\ d.output_data_format = e.output_data_format

\* C10 (as claimed): the general validator's outcome depends only on the
\* three universal fields: every configuration that agrees with the validated
\* one on them gets the same outcome, whatever records or other keys it holds.
C10_OnlyUniversalFieldsDecide ==
    GeneralVerdict =>
        \A d \in Documents :
            SameUniversalFields(d, source.doc) =>
                validate_data("ConfigModel", [kind |-> "mapping", doc |-> d])
                    = verdict.outcome

----------------------------------------------------------------------------
(* Claims about the schemas, checked under SpecSchemas.                    *)

\* a validator has judged a mapping
SchemaVerdict == verdict.made /\ source.kind = "mapping"

\* the record of family t in a document
RecordOf(doc, t) ==
    CASE t = "kmeans"     -> doc.kmeans
      [] t = "dbscan"     -> doc.dbscan
      [] t = "mean_shift" -> doc.mean_shift

\* the family an algorithm-specific model is for
ModelTag ==
    [KMeansModel |-> "kmeans", DBSCANModel |-> "dbscan",
     MeanShiftModel |-> "mean_shift"]

\* the validator of family t has judged a configuration of algorithm_type t
\* that is right in its universal fields and has a mapping as record of t
OwnVerdict(t) ==
    /\ SchemaVerdict
    /\ verdict.model \in SpecificModels
    /\ ModelTag[verdict.model] = t
    /\ source.doc.algorithm_type = Str(t)
    /\ ConfigModel(source.doc)
    /\ source.doc.extra # "int"
    /\ RecordOf(source.doc, t).ty = "map"

\* a YAML value that is an integer, a number, a boolean
IsInteger(v) == v.ty = "int"
IsNumber(v)  == v.ty \in {"int", "float"}
IsBoolean(v) == v.ty = "bool"

C12_KMeansAcceptsExactly ==
    (OwnVerdict("kmeans") /\ OptionalInt(source.doc.kmeans.random_state)) =>
        LET rec == source.doc.kmeans
        IN  verdict.outcome = "ok" <=>
              /\ IsInteger(rec.n_clusters) /\ rec.n_clusters.n > 0
              /\ IsInteger(rec.max_iter) /\ rec.max_iter.n > 0
              /\ rec.init \in {Str("random"), Str("k-means++")}

\* C13 (as claimed): the dbscan validator accepts a dbscan configuration
\* exactly when eps > 0, min_samples is an integer >= 1, algorithm is one of
\* the four names and leaf_size is an integer > 1.
C13_DBSCANAcceptsExactly ==
    OwnVerdict("dbscan") =>
        LET rec == source.doc.dbscan
        IN  verdict.outcome = "ok" <=>
              /\ IsNumber(rec.eps) /\ rec.eps.n > 0
              /\ IsInteger(rec.min_samples) /\ rec.min_samples.n >= 1
              /\ rec.algorithm \in {Str("auto"), Str("ball_tree"),
                                    Str("kd_tree"), Str("brute")}
              /\ IsInteger(rec.leaf_size) /\ rec.leaf_size.n > 1

\* C14 (as claimed): the mean_shift validator accepts a mean_shift
\* configuration exactly when bandwidth > 0, bin_seeding and cluster_all are
\* booleans, min_bin_freq and max_iter are integers >= 1 and seeds is a list
\* of point lists or "none" (or left unset, which C15 is about).
C14_MeanShiftAcceptsExactly ==
    (OwnVerdict("mean_shift") /\ source.doc.mean_shift.seeds # Absent) =>
        LET rec == source.doc.mean_shift
        IN  verdict.outcome = "ok" <=>
              /\ IsNumber(rec.bandwidth) /\ rec.bandwidth.n > 0
              /\ IsBoolean(rec.bin_seeding)
              /\ IsBoolean(rec.cluster_all)
              /\ IsInteger(rec.min_bin_freq) /\ rec.min_bin_freq.n >= 1
              /\ IsInteger(rec.max_iter) /\ rec.max_iter.n >= 1
              /\ rec.seeds \in {PointList, Str("none"), Null}

\* C15 (as claimed): a kmeans record without the key random_state, and a
\* mean_shift record without the key seeds, validate silently when every
\* other field of the record is valid.
C15_OptionalMayBeLeftOut ==
    /\ (OwnVerdict("kmeans") /\ source.doc.kmeans.random_state = Absent
            /\ KMeansParamsConfig([source.doc.kmeans EXCEPT !.random_state = Null]))
          => verdict.outcome = "ok"
    /\ (OwnVerdict("mean_shift") /\ source.doc.mean_shift.seeds = Absent
            /\ MeanShiftParamsConfig([source.doc.mean_shift EXCEPT !.seeds = Null]))
          => verdict.outcome = "ok"

\* C16: the validator of family F rejects, with the generic error, every
\* configuration whose algorithm_type is not exactly F, also when the record
\* of F is present and valid, and every configuration without the record of F.
C16_RejectsOtherFamily ==
    (SchemaVerdict /\ verdict.model \in SpecificModels) =>
        LET t == ModelTag[verdict.model]
        IN  /\ source.doc.algorithm_type # Str(t) => verdict.outcome = "TypeError"
            /\ RecordOf(source.doc, t) = Absent => verdict.outcome = "TypeError"

\* C16 witness: the kmeans validator has rejected a configuration of
\* algorithm_type dbscan that holds the valid kmeans record
C16_Witness ==
    /\ SchemaVerdict
    /\ verdict.model = "KMeansModel"
    /\ source.doc.algorithm_type = Str("dbscan")
    /\ source.doc.kmeans = ValidKMeans
    /\ InheritedFields(source.doc)
    /\ source.doc.extra = "none"
    /\ verdict.outcome = "TypeError"

\* the families whose record a document holds
RecordsPresent(doc) == {t \in Tags : RecordOf(doc, t) # Absent}

\* C17 (as claimed): a configuration accepted by the general validator and
\* by the validator of its algorithm_type holds exactly one algorithm
\* record, the one of its algorithm_type.
C17_ExactlyOneRecord ==
    (/\ SchemaVerdict
     /\ verdict.model \in SpecificModels
     /\ source.doc.algorithm_type = Str(ModelTag[verdict.model])
     /\ verdict.outcome = "ok"
     /\ validate_data("ConfigModel", source) = "ok")
        => RecordsPresent(source.doc) = {ModelTag[verdict.model]}

----------------------------------------------------------------------------
(* Claims about Container instances.                                       *)

\* the backend instances the providers of Container instance g hold
BackendsOf(g) ==
    [n \in DOMAIN BackendProviders |-> stores[graphs[g].provs][n]]

\* the strategy instances the providers of Container instance g hold
StrategiesOf(g) ==
    [n \in DOMAIN StrategyProviders |-> stores[graphs[g].provs][n]]

\* C18: within one Container instance, under an unchanged configuration, a
\* repeated container.algorithm() returns the strategy instance returned
\* before, holding the backend instance it held before, and builds nothing:
\* each is the first (and only) instance its provider has constructed.
C18_SameInstanceEachTime ==
    [][(/\ got'.op = "resolve"
        /\ got'.times > 1
        /\ got'.value # Error)
          => /\ got'.value = got.value
             /\ got'.algo = got.algo
             /\ got'.value.id = 1
             /\ got'.algo.id = 1
             /\ got'.value.args.algo = got'.algo.id
             /\ stores' = stores]_vars

\* the k-means strategy has been resolved MaxResolutions times in a row
\* under one configuration
C18_Witness ==
    /\ got.op = "resolve"
    /\ got.times = MaxResolutions
    /\ got.value.class = "KMeans"
    /\ got.algo.class = "SklearnKMeans"
    /\ got.algo.id = 1

\* C19: two Container instances built independently hold their strategy and
\* backend instances in providers of their own, and cluster_data on the
\* strategy resolved from one of them leaves every backend and strategy of
\* the other as it was, also when both were given the same configuration.
C19_GraphsShareNothing ==
    [][\A g, h \in Graphs :
          (g # h /\ graphs[g].built /\ graphs[h].built)
            => /\ graphs[g].provs # graphs[h].provs
               /\ (got'.op = "fit" /\ got'.graph = g /\ graphs' = graphs)
                    => /\ BackendsOf(h)' = BackendsOf(h)
                       /\ StrategiesOf(h)' = StrategiesOf(h)]_vars

\* two instances with the same k-means configuration, both resolved; the
\* backend of the first has been fitted, the one of the second has not
C19_Witness ==
    /\ graphs[1].built
    /\ graphs[2].built
    /\ graphs[1].config = graphs[2].config
    /\ graphs[1].config.algorithm_type = "kmeans"
    /\ got.op = "fit"
    /\ got.graph = 1
    /\ BackendsOf(1)["sklearn_kmeans"].fitted
    /\ BackendsOf(2)["sklearn_kmeans"].id = 1
    /\ ~BackendsOf(2)["sklearn_kmeans"].fitted

\* C20 (as claimed): the strategy and the backend a resolution returns are
\* those of the algorithm_type in force, and the backend holds the
\* constructor arguments the configuration in force gives.
C20_SelectionFollowsConfiguration ==
    (got.op = "resolve" /\ got.value # Error)
        => /\ FamilyOf(got.value.class) = got.cfg.algorithm_type
           /\ FamilyOf(got.algo.class) = got.cfg.algorithm_type
           /\ got.algo.args =
                BackendArgs(got.cfg, StrategyProviders[got.cfg.algorithm_type].algo)

----------------------------------------------------------------------------
(* Claims about the input handler, checked under SpecInput.                *)

\* the file the dataset d is stored in by np.save, and as JSON
NumpyFileOf(d) ==
    [exists |-> TRUE, name |-> <<"data", ".npy">>, content |-> Npy(d)]
JsonFileOf(d) ==
    [exists |-> TRUE, name |-> <<"data", ".json">>, content |-> Json(tolist(d))]

\* C22: load_data on a path that does not exist raises FileExistsError,
\* whatever the suffix of the path, and opens no file.
C22_MissingInputFirst ==
    (input.made /\ ~input.file.exists)
        => /\ input.result.outcome = "FileExistsError"
           /\ input.result.reads = 0

\* C22 witness: no file under a name with an unsupported suffix
C22_Witness ==
    /\ input.made
    /\ ~input.file.exists
    /\ suffix(input.file.name) = ".txt"
    /\ input.result.outcome = "FileExistsError"

\* C23: load_data on an existing file whose suffix is neither .npy nor .json
\* raises ValueError and opens no file; a dataset is returned only for the
\* suffixes .npy and .json.
C23_OtherSuffixRejected ==
    /\ (input.made /\ input.file.exists
            /\ suffix(input.file.name) \notin {".npy", ".json"})
          => /\ input.result.outcome = "ValueError"
             /\ input.result.reads = 0
    /\ (input.made /\ input.result.outcome = "ok")
          => suffix(input.file.name) \in {".npy", ".json"}

\* C23 witness: a numpy file of a non-empty dataset under the name
\* data.npy.txt
C23_Witness ==
    /\ input.made
    /\ input.file.exists
    /\ input.file.name = <<"data", ".npy", ".txt">>
    /\ input.file.content = Npy(input.stored)
    /\ Size(input.stored) > 0
    /\ input.result.outcome = "ValueError"

\* C24 (as claimed): a dataset loaded from the .npy file it was stored in
\* and from the .json file it was stored in is the same array both times,
\* the dataset that was stored.
C24_SameDatasetEitherWay ==
    (input.made /\ input.result.outcome = "ok")
        => /\ input.result.data = input.stored
           /\ load_data(NumpyFileOf(input.stored)).data = input.stored
           /\ load_data(JsonFileOf(input.stored)).data = input.stored

----------------------------------------------------------------------------
(* Claims about the output handlers, checked under SpecOutput.             *)

\* the file each output format is to be written to, and by which encoder
OutputFileOf == [numpy |-> "clustered_data.npy", json |-> "clustered_data.json"]
EncoderOf == [numpy |-> "NumpyOutputHandler", json |-> "JSONOutputHandler"]

\* C25: the handler resolved under output_data_format numpy writes
\* clustered_data.npy and the one resolved under json writes
\* clustered_data.json; a save changes no other file, and the name of the
\* file written does not depend on the data or on the configuration in
\* force at the time of the save.
C25_OwnFixedFile ==
    [][(disk'.made /\ disk' # disk)
          => /\ disk'.format \in DOMAIN OutputFileOf
             /\ disk'.handler = EncoderOf[disk'.format]
             /\ \A n \in DiskFiles \ {OutputFileOf[disk'.format]} :
                   disk'.files[n] = disk.files[n]
             /\ disk'.files[OutputFileOf[disk'.format]] =
                   IF disk'.format = "numpy" THEN Npy(disk'.data)
                   ELSE Json(tolist(disk'.data))]_vars

\* C25 witness: the handler resolved under json has saved a non-empty array
\* after the configuration was set to numpy, and clustered_data.npy still
\* holds what the numpy handler wrote before
C25_Witness ==
    /\ disk.made
    /\ disk.format = "json"
    /\ config.output_data_format = "numpy"
    /\ Size(disk.data) > 0
    /\ disk.files["clustered_data.json"] = Json(tolist(disk.data))
    /\ disk.files["clustered_data.npy"].format = "npy"
    /\ disk.files["input_data.npy"] = NoContent

----------------------------------------------------------------------------
(* Claims about the labelling protocol, checked under SpecAlgo.            *)

\* the methods invoked on the backend during the call, in order
Methods(trace) == [k \in 1..Len(trace) |-> trace[k].m]

\* C26: on non-empty data the KMeans strategy calls fit and then predict on
\* its backend, both with the call's input; the DBSCAN strategy gets its
\* labels from fit_predict on the call's input and calls no predict.
C26_ProtocolOfBackend ==
    NonEmptyCall =>
        /\ strategy.family = "kmeans" =>
              /\ Methods(call.trace) = <<"fit", "predict">>
              /\ \A k \in 1..Len(call.trace) : call.trace[k].arg = call.data
        /\ strategy.family = "dbscan" =>
              /\ call.trace # <<>>
              /\ call.trace[Len(call.trace)] = Invoke("fit_predict", call.data)
              /\ \A k \in 1..Len(call.trace) : call.trace[k].m # "predict"
              /\ call.labels = strategy.algo.labels_

\* C26 witness: a DBSCAN call on two rows that ended with fit_predict
C26_Witness ==
    /\ NonEmptyCall
    /\ strategy.family = "dbscan"
    /\ call.data.shape[1] = 2
    /\ call.trace[Len(call.trace)].m = "fit_predict"
    /\ call.labels[1] # call.labels[2]

\* C27: in every sequence of calls on one strategy, the labels a call on
\* non-empty data appends are those of the backend fitted to that call's
\* input: the label derivation comes with or after a fit on the call's
\* data, the backend is left fitted to that data, and the appended column
\* is its labelling, whatever an earlier call left in the backend.
C27_LabelsOfOwnFit ==
    NonEmptyCall =>
        /\ \E k \in 1..Len(call.trace) :
              /\ call.trace[k].m \in LabelMethods
              /\ call.trace[k].arg = call.data
              /\ \E j \in 1..k : /\ call.trace[j].m \in FitMethods
                                 /\ call.trace[j].arg = call.data
        /\ strategy.algo.fitted
        /\ strategy.algo.X = call.data
        /\ call.labels = strategy.algo.labels_
        /\ \A i \in 1..call.data.shape[1] :
              call.ret.rows[i][Len(call.ret.rows[i])] = strategy.algo.labels_[i]

\* C27 witness: a call on non-empty data made on a backend that an earlier
\* call had fitted to other data, with another labelling
C27_Witness ==
    /\ NonEmptyCall
    /\ call.before.fitted
    /\ call.before.X # call.data
    /\ call.before.X.shape[1] # call.data.shape[1]
    /\ call.labels # call.before.labels_
    /\ strategy.algo.X = call.data

----------------------------------------------------------------------------
(* Claims about what a resolution constructs, checked under SpecGraph.     *)

\* C28 (as claimed): the backend a resolution returns was given every
\* parameter of the parameter record its family's schema validates.
C28_AllParametersReachBackend ==
    (got.op = "resolve" /\ got.value # Error)
        => \A k \in ParamFields[got.cfg.algorithm_type] :
              k \in DOMAIN got.algo.args

\* the providers of the strategy and the backend of family t
ProvidersOf(t) == {t, StrategyProviders[t].algo}

\* C29: container.algorithm() under algorithm_type t succeeds, also when
\* the configuration holds the record of family t only, and constructs
\* nothing but the strategy and the backend of family t: every other
\* provider holds after the call what it held before.
C29_OnlySelectedFamilyBuilt ==
    [][(got' # got \/ stores' # stores)
          => LET t == got'.cfg.algorithm_type
                 p == graphs[got'.graph].provs
             IN  /\ got'.op = "resolve"
                 /\ got'.value # Error
                 /\ got'.value.class = StrategyProviders[t].class
                 /\ \A n \in SingletonNames \ ProvidersOf(t) :
                       stores'[p][n] = stores[p][n]
                 /\ \A q \in ProviderSets \ {p} : stores'[q] = stores[q]]_vars

\* C29 witness: the first resolution of a Container instance whose
\* configuration holds the dbscan record only: the DBSCAN strategy and its
\* backend are built, no other strategy or backend is
C29_Witness ==
    /\ got.op = "resolve"
    /\ got.cfg.algorithm_type = "dbscan"
    /\ got.cfg.kmeans = NoSection
    /\ got.cfg.mean_shift = NoSection
    /\ got.value.class = "DBSCAN"
    /\ got.algo.class = "SklearnDBSCAN"
    /\ \A n \in (DOMAIN StrategyProviders \cup DOMAIN BackendProviders)
                    \ ProvidersOf("dbscan") :
          stores[graphs[got.graph].provs][n] = NotBuilt

----------------------------------------------------------------------------
(* Claims about validate_data on every kind of source, checked under       *)
(* SpecValidator.                                                          *)

\* C30 (as claimed): whatever the configuration source, validate_data
\* returns silently or raises TypeError.
C30_OnlyTwoOutcomes ==
    verdict.made => verdict.outcome \in {"ok", "TypeError"}

----------------------------------------------------------------------------
(* SpecRun: one run of the pipeline on a configuration source.  The order  *)
(* of the steps is the control flow of the pipeline: the configuration is  *)
(* loaded, validated against the general schema, validated against the     *)
(* schema of its algorithm, then the strategy is resolved, the input is    *)
(* loaded, clustered and saved.  Every error ends the run.                 *)

\* a plausible slip: an error is reported and the run goes on
After_KeepGoing(step, outcome) == step

\* the step a run is at after a step that ended in outcome, step being the
\* one that follows in the control flow
After(step, outcome) == IF outcome = "ok" THEN step ELSE "failed"

\* container.config.from_yaml(config_path): the options the container holds;
\* a file that is missing or holds no mapping leaves every option unset
ConfigOf(src) ==
    LET OptionOf(v) == IF v.ty = "str" THEN v.s ELSE None
    IN
    IF src.kind # "mapping"
    THEN [algorithm_type |-> None, output_data_format |-> None,
          kmeans |-> NoSection, dbscan |-> NoSection, mean_shift |-> NoSection]
    ELSE [algorithm_type     |-> OptionOf(src.doc.algorithm_type),
          output_data_format |-> OptionOf(src.doc.output_data_format),
          kmeans     |-> IF src.doc.kmeans = ValidKMeans
                         THEN KMeansSection ELSE NoSection,
          dbscan     |-> IF src.doc.dbscan = ValidDBSCAN
                         THEN DBSCANSection ELSE NoSection,
          mean_shift |-> IF src.doc.mean_shift = ValidMeanShift
                         THEN MeanShiftSection ELSE NoSection]

\* how from_yaml ends: a file that is not YAML raises
from_yaml(src) == IF src.kind = "unparsable" THEN "YAMLError" ELSE "ok"

\* container.input_handler(): the file at config.input_data_path, which may
\* be there or not; the empty path is the working directory
RunFiles(src) ==
    IF src.kind = "mapping" /\ src.doc.input_data_path = Str("")
    THEN {[exists |-> TRUE, name |-> <<"">>, content |-> NoContent]}
    ELSE {[exists |-> FALSE, name |-> <<"input_data", ".npy">>,
           content |-> NoContent]}
         \cup {NumpyFileOf(d) : d \in SavedData}

InitRun ==
    /\ source \in Sources
    /\ verdict = NoVerdict
    /\ run =
          [pc |-> "load", cfg |-> ConfigOf([kind |-> "missing", doc |-> NoDocument]),
           store |-> EmptyStore, general |-> "", specific |-> "", error |-> "",
           class |-> "", data |-> Empty1D, calls |-> 0, fits |-> 0,
           saved |-> FALSE]
    /\ input = Unused
    /\ disk = Unused
    /\ IdleAlgo
    /\ IdleContainer
    /\ IdleGraphs

RunUnchanged ==
    UNCHANGED <<source, verdict, algoVars, containerVars, graphVars, ioVars>>

\* container = Container(); container.config.from_yaml(config_path)
RunLoadConfig ==
    /\ run.pc = "load"
    /\ run' = [run EXCEPT !.cfg = ConfigOf(source),
                          !.error = from_yaml(source),
                          !.pc = After("general", from_yaml(source))]
    /\ RunUnchanged

\* container.general_validator().validate_data(config_path)
RunValidateGeneral ==
    /\ run.pc = "general"
    /\ \E r \in {provide_general_validator(run.store)} :
       \E outcome \in {validate_data(r.value.model, source)} :
          run' = [run EXCEPT !.store = r.store, !.general = outcome,
                             !.error = outcome,
                             !.pc = After("specific", outcome)]
    /\ RunUnchanged

\* container.algo_specific_validator().validate_data(config_path)
RunValidateSpecific ==
    /\ run.pc = "specific"
    /\ \E r \in {provide_algo_specific_validator(run.cfg, run.store)} :
       \E outcome \in {IF r.value = Error THEN "Error"
                       ELSE validate_data(r.value.model, source)} :
          run' = [run EXCEPT !.store = r.store, !.specific = outcome,
                             !.error = outcome,
                             !.pc = After("resolve", outcome)]
    /\ RunUnchanged

\* algo = container.algorithm()
RunResolve ==
    /\ run.pc = "resolve"
    /\ \E r \in {provide_algorithm(run.cfg, run.store)} :
       \E outcome \in {IF r.value = Error THEN "Error" ELSE "ok"} :
          run' = [run EXCEPT !.store = r.store, !.class = r.value.class,
                             !.error = outcome,
                             !.pc = After("input", outcome)]
    /\ RunUnchanged

\* data = container.input_handler().load_data()
RunLoadData ==
    /\ run.pc = "input"
    /\ \E f \in RunFiles(source) : \E r \in {load_data(f)} :
          run' = [run EXCEPT !.data = r.data, !.error = r.outcome,
                             !.pc = After("cluster", r.outcome)]
    /\ RunUnchanged

\* clustered = algo.cluster_data(data)
RunCluster ==
    /\ run.pc = "cluster"
    /\ \E lab \in Labellings(run.data) :
       \E out \in {cluster_data(NewStrategy(FamilyOf(run.class)), run.data, lab)} :
          run' = [run EXCEPT !.data = out.ret,
                             !.calls = @ + 1,
                             !.fits = @ + FitCount(out.trace),
                             !.error = "ok",
                             !.pc = After("save", "ok")]
    /\ RunUnchanged

\* container.output_handler().save_to_file(clustered)
RunSave ==
    /\ run.pc = "save"
    /\ \E r \in {provide_output_handler(run.cfg, run.store)} :
       \E outcome \in {IF r.value = Error THEN "Error" ELSE "ok"} :
          run' = [run EXCEPT !.store = r.store, !.saved = (outcome = "ok"),
                             !.error = outcome,
                             !.pc = After("done", outcome)]
    /\ RunUnchanged

NextRun ==
    \/ RunLoadConfig
    \/ RunValidateGeneral
    \/ RunValidateSpecific
    \/ RunResolve
    \/ RunLoadData
    \/ RunCluster
    \/ RunSave

SpecRun == InitRun /\ [][NextRun]_vars

\* C21: in a run the general validator and then the algorithm-specific
\* validator have both returned silently before cluster_data is called or a
\* backend is fitted; when either of them fails the run ends there, with no
\* cluster_data call and no fit.
C21_ValidationBeforeAlgorithm ==
    /\ run.specific # "" => run.general = "ok"
    /\ (run.calls > 0 \/ run.fits > 0 \/ run.class # "")
          => (run.general = "ok" /\ run.specific = "ok")
    /\ (run.general \notin {"", "ok"} \/ run.specific \notin {"", "ok"})
          => (run.pc = "failed" /\ run.calls = 0 /\ run.fits = 0)

\* C21 witness: a run on a configuration the general validator accepts and
\* the validator of its algorithm rejects, ended without any clustering
C21_Witness ==
    /\ run.pc = "failed"
    /\ run.general = "ok"
    /\ run.specific = "TypeError"
    /\ run.calls = 0
    /\ run.fits = 0

====
